---- MODULE Spec2Model ----
(***************************************************************************)
(* Model of the traffic-light detector node                                *)
(* (ros/src/tl_detector/tl_detector.py, class TLDetector).                 *)
(*                                                                         *)
(* The node keeps the latest vehicle pose, the latest path snapshot, the   *)
(* latest camera frame, an accumulating list of stop-line waypoint         *)
(* indices and the debounce record (state, state_count, last_state,        *)
(* last_wp).  Every subscriber callback is one action.  image_cb is the    *)
(* whole frame handler: stop-line resolution, candidate scan, classifier   *)
(* call and debounce.                                                      *)
(*                                                                         *)
(* Four specifications are given.  Spec runs the callbacks as atomic       *)
(* actions.  SpecConc runs image_cb step by step, one step per read of     *)
(* self.waypoints or self.pose, with the other subscribers' callbacks      *)
(* between the steps.  SpecNearest applies get_closest_waypoint to every   *)
(* path and point of a small integer grid.  SpecLightState applies         *)
(* get_light_state, with and without a camera frame, and the debounce.     *)
(*                                                                         *)
(* Python None is written <<>> (an absent pose or path); positions are     *)
(* triples <<x, y, z>> of integers; path indices are 0-based as in Python. *)
(***************************************************************************)
EXTENDS Integers, Sequences, FiniteSets, TLC

\* ---------------------------------------------------------------------------
\* Program constants
\* ---------------------------------------------------------------------------

\* styx_msgs/TrafficLight state ids used by the node.
RED == 0
YELLOW == 1
GREEN == 2
UNKNOWN == 4

LightStates == {RED, YELLOW, GREEN, UNKNOWN}

\* Number of frames a state has to be seen before it is used.
STATE_COUNT_THRESHOLD == 3

\* Initial value of min_idx_dist: the look-ahead horizon in path indices.
min_idx_dist_init == 150

\* "no stop" sentinel, the initial last_wp and light_wp.
NoStop == -1

\* Python None for pose, waypoints and the local variable light.
None == <<>>

\* ---------------------------------------------------------------------------
\* Bounds of the model
\* ---------------------------------------------------------------------------

\* Number of points of each path snapshot.
PathLen == 152

\* Number of camera frames delivered in one behaviour.
MaxFrames == 5

\* Number of camera frames delivered in one behaviour in which image_cb runs
\* step by step beside the other callbacks.
MaxConcFrames == 1

\* Largest x coordinate of the grid on which get_closest_waypoint is checked
\* alone, and the largest number of points of a path on that grid.
MaxCoord == 1
MaxPathPts == 2

\* ---------------------------------------------------------------------------
\* Inputs: path snapshots, vehicle poses, stop-line configurations
\* ---------------------------------------------------------------------------

\* A straight path with unit spacing: index i lies at x = i.
PathUnit == [i \in 1..PathLen |-> <<i - 1, 0, 0>>]

\* A straight path with spacing 2: index i lies at x = 2*i, so odd x are
\* equidistant from two neighbouring indices.
PathWide == [i \in 1..PathLen |-> <<2 * (i - 1), 0, 0>>]

Paths == {PathUnit, PathWide}

\* Vehicle positions delivered on /current_pose.
CarPositions == {<<0, 0, 0>>, <<1, 0, 0>>}

\* /traffic_light_config stop_line_positions: lists of [x, y].
ConfigNone == <<>>
ConfigFar == << <<150, 0>> >>
ConfigNear == << <<1, 0>> >>
ConfigOrigin == << <<0, 0>> >>
ConfigUnordered == << <<200, 0>>, <<20, 0>> >>

Configs == {ConfigNone, ConfigFar, ConfigNear, ConfigOrigin, ConfigUnordered}

\* The grid of integer points, the stop-line positions [x, y] on it and all
\* non-empty paths over it, for the check of get_closest_waypoint alone.
GridPoints == {<<x, y, z>> : x \in 0..MaxCoord, y \in 0..1, z \in 0..1}
GridStopLines == {<<x, y>> : x \in 0..MaxCoord, y \in 0..1}
GridPaths == UNION {[1..n -> GridPoints] : n \in 1..MaxPathPts}

\* Ground-truth light lists delivered on /vehicle/traffic_lights.
LightLists == {<<RED>>}

\* Camera frames delivered on /image_color: an opaque payload.  What the
\* classifier answers for a frame is a separate input of image_cb.
Images == {"image"}

\* ---------------------------------------------------------------------------
\* State
\* ---------------------------------------------------------------------------
VARIABLES
    config,           \* self.config['stop_line_positions'], fixed at startup
    pose,             \* self.pose: None or the vehicle position
    waypoints,        \* self.waypoints: None or the path snapshot
    lights,           \* self.lights
    has_image,        \* self.has_image (FALSE: attribute not yet set)
    camera_image,     \* self.camera_image: None or the latest frame
    stop_lines,       \* self.stop_lines
    state,            \* self.state: current raw light state
    state_count,      \* self.state_count: run length of self.state
    last_state,       \* self.last_state
    last_wp,          \* self.last_wp: last stable published decision
    traffic_waypoint, \* /traffic_waypoint: latest message (queue_size=1)
    frame,            \* record of the latest image_cb call
    hist,             \* raw observations of the completed frames so far
    nframes,          \* number of image_cb calls so far
    call              \* the /image_color thread: position and locals of the
                      \* image_cb call in progress, when it runs step by step

vars == <<config, pose, waypoints, lights, has_image, camera_image, stop_lines,
          state, state_count, last_state, last_wp, traffic_waypoint,
          frame, hist, nframes, call>>

\* ---------------------------------------------------------------------------
\* get_closest_waypoint: brute-force nearest neighbour
\* ---------------------------------------------------------------------------

\* Squared Euclidean distance of two 3D points.  cdist takes the square
\* root, which is strictly monotonic on these exactly representable
\* integers, so argmin over squares is argmin over distances.
Dist2(p, q) ==
    (p[1] - q[1]) * (p[1] - q[1]) + (p[2] - q[2]) * (p[2] - q[2])
        + (p[3] - q[3]) * (p[3] - q[3])

\* Nearer with the later position winning a tie: the variant the nearest
\* neighbour property must tell apart.
NearerLastOnTie(wps, node, a, b) ==
    IF Dist2(wps[b], node) <= Dist2(wps[a], node) THEN b ELSE a

\* Of two positions a < b of wps, the one nearer to node; a on a tie.
Nearer(wps, node, a, b) ==
    IF Dist2(wps[b], node) < Dist2(wps[a], node) THEN b ELSE a

\* numpy argmin over positions lo..hi of wps (1-based): the first position
\* holding the minimum.  The range is halved; on equal distances the left
\* half, that is the lower index, wins, as in numpy's left-to-right scan.
RECURSIVE ArgMin(_, _, _, _)
ArgMin(wps, node, lo, hi) ==
    IF lo = hi THEN lo
    ELSE Nearer(wps, node, ArgMin(wps, node, lo, (lo + hi) \div 2),
                ArgMin(wps, node, (lo + hi) \div 2 + 1, hi))

\* get_closest_waypoint raises UnboundLocalError when there is no path:
\* nearest_index is only bound in the "is not None" branch.
get_closest_waypoint_raises(wps) == wps = None

\* Every point the node ever looks up: vehicle positions and stop lines.
QueryPoints ==
    CarPositions \cup
    {<<c[k][1], c[k][2], 0>> : c \in {ConfigFar, ConfigNear, ConfigOrigin},
                               k \in {1}} \cup
    {<<ConfigUnordered[k][1], ConfigUnordered[k][2], 0>> : k \in {1, 2}}

\* cdist(...).argmin() for every snapshot and point the node meets,
\* computed once.
NearestIndex ==
    [w \in Paths |-> [q \in QueryPoints |-> ArgMin(w, q, 1, Len(w)) - 1]]

\* The 0-based index of the closest waypoint (wps is not None).
get_closest_waypoint(wps, position) ==
    IF wps \in Paths /\ position \in QueryPoints
    THEN NearestIndex[wps][position]
    ELSE ArgMin(wps, position, 1, Len(wps)) - 1

\* Stop-line positions are looked up as (x, y, 0).
get_closest_stoplight_waypoint(wps, stop_line_position) ==
    get_closest_waypoint(wps, <<stop_line_position[1], stop_line_position[2], 0>>)

\* ---------------------------------------------------------------------------
\* get_light_state
\* ---------------------------------------------------------------------------

\* Python False, returned by get_light_state when no frame has arrived.
PyFalse == 0

\* get_light_state that treats YELLOW as RED: the variant the classifier
\* property must tell apart.
get_light_state_yellow_as_red(has_img, classification) ==
    IF ~has_img THEN PyFalse
    ELSE IF classification = YELLOW THEN RED ELSE classification

\* The classifier's answer for the current frame, or False without a frame.
\* The argument light is ignored by the code.
get_light_state(has_img, classification) ==
    IF ~has_img THEN PyFalse ELSE classification

\* ---------------------------------------------------------------------------
\* process_traffic_lights
\* ---------------------------------------------------------------------------

\* The local variable light when it is None.
NoLight == -1

\* The placeholder recorded for car_position when self.pose is None.
NoCar == -1

\* The placeholder recorded for the classifier's answer when
\* get_classification is not called.
NoAnswer == -1

\* closest_waypoints: one nearest path index per configured stop line.
ResolveStopLines(cfg, wps) ==
    [k \in 1..Len(cfg) |-> get_closest_stoplight_waypoint(wps, cfg[k])]

\* self.stop_lines.extend(closest_waypoints)
ExtendStopLines(sl, closest) == sl \o closest

\* InWindow with the horizon itself included (idx_dist <= min_idx_dist):
\* the variant the horizon boundary property must tell apart.
InWindowInclusive(idx_dist, min_dist) == 0 < idx_dist /\ idx_dist <= min_dist

\* 0 < idx_dist < min_idx_dist
InWindow(idx_dist, min_dist) == 0 < idx_dist /\ idx_dist < min_dist

\* The for loop with break: the 1-based position of the first entry of sl
\* inside the window, 0 when the loop ends without a break (light = None).
RECURSIVE ScanStopLines(_, _, _)
ScanStopLines(sl, car_position, i) ==
    IF i > Len(sl) THEN 0
    ELSE IF InWindow(sl[i] - car_position, min_idx_dist_init) THEN i
    ELSE ScanStopLines(sl, car_position, i + 1)

\* LightId counting from 1: the variant the equivalence with a list
\* resolved once must tell apart.
LightIdOneBased(p) == p

\* The value of enumerate's i for position p of the list.
LightId(p) == p - 1

\* SelectCandidate that returns the car's path index as the waypoint: the
\* variant the output property must tell apart.
SelectCandidateCarIndex(ext, closest, has_pose, car, has_img, answer) ==
    IF has_pose /\ ScanStopLines(ext, car, 1) > 0
    THEN [raised |-> FALSE, stop_lines |-> ext, closest_waypoints |-> closest,
          car_position |-> car,
          light |-> LightId(ScanStopLines(ext, car, 1)),
          light_wp |-> car,
          state |-> get_light_state(has_img, answer), classified |-> 1,
          answer |-> IF has_img THEN answer ELSE NoAnswer]
    ELSE [raised |-> FALSE, stop_lines |-> ext, closest_waypoints |-> closest,
          car_position |-> car, light |-> NoLight, light_wp |-> NoStop,
          state |-> UNKNOWN, classified |-> 0, answer |-> NoAnswer]

\* The candidate scan and classifier call of process_traffic_lights, given
\* the extended list ext and the car's path index car (NoCar without a
\* pose).  answer is what the classifier says for the current frame.
SelectCandidate(ext, closest, has_pose, car, has_img, answer) ==
    IF has_pose /\ ScanStopLines(ext, car, 1) > 0
    THEN [raised |-> FALSE, stop_lines |-> ext, closest_waypoints |-> closest,
          car_position |-> car,
          light |-> LightId(ScanStopLines(ext, car, 1)),
          light_wp |-> ext[ScanStopLines(ext, car, 1)],
          state |-> get_light_state(has_img, answer), classified |-> 1,
          answer |-> IF has_img THEN answer ELSE NoAnswer]
    ELSE [raised |-> FALSE, stop_lines |-> ext, closest_waypoints |-> closest,
          car_position |-> car, light |-> NoLight, light_wp |-> NoStop,
          state |-> UNKNOWN, classified |-> 0, answer |-> NoAnswer]

\* Raised with the exception swallowed and the defaults (-1, UNKNOWN)
\* returned: the variant the no-path failure property must tell apart.
RaisedSwallowed(lines) ==
    [raised |-> FALSE, stop_lines |-> lines, closest_waypoints |-> <<>>,
     car_position |-> NoCar, light |-> NoLight, light_wp |-> NoStop,
     state |-> UNKNOWN, classified |-> 0, answer |-> NoAnswer]

\* The result of a call that an exception left; lines is self.stop_lines.
Raised(lines) ==
    [raised |-> TRUE, stop_lines |-> lines, closest_waypoints |-> <<>>,
     car_position |-> NoCar, light |-> NoLight, light_wp |-> NoStop,
     state |-> UNKNOWN, classified |-> 0, answer |-> NoAnswer]

\* One call of process_traffic_lights.  The list comprehension raises
\* without a path when a stop line is configured; the car lookup raises
\* without a path when a pose is known.
process_traffic_lights(cfg, wps, ps, sl, has_img, answer) ==
    IF Len(cfg) > 0 /\ get_closest_waypoint_raises(wps) THEN Raised(sl)
    ELSE IF ps # None /\ get_closest_waypoint_raises(wps)
    THEN Raised(ExtendStopLines(sl, ResolveStopLines(cfg, wps)))
    ELSE CHOOSE r \in
           { SelectCandidate(ExtendStopLines(sl, closest), closest,
                             ps # None, car, has_img, answer) :
               closest \in {ResolveStopLines(cfg, wps)},
               car \in {IF ps # None THEN get_closest_waypoint(wps, ps)
                        ELSE NoCar} } : TRUE

\* ---------------------------------------------------------------------------
\* The debounce step of image_cb
\* ---------------------------------------------------------------------------

\* ResetCount that keeps a full run on a raw state change: the variant the
\* noise rejection property must tell apart.
ResetCountKeepsRun == STATE_COUNT_THRESHOLD - 1

\* self.state_count = 0 on a raw state change.
ResetCount == 0

\* elif self.state_count >= STATE_COUNT_THRESHOLD
AtThreshold(count) == count >= STATE_COUNT_THRESHOLD

\* CommitValue that stops for RED only: the variant the commit value
\* property must tell apart.
CommitValueRedOnly(raw, light_wp) == IF raw = RED THEN light_wp ELSE NoStop

\* light_wp if (state == RED or state == YELLOW) else -1
CommitValue(raw, light_wp) ==
    IF raw = RED \/ raw = YELLOW THEN light_wp ELSE NoStop

\* HoldValue that publishes the unconfirmed candidate: the variant the hold
\* property must tell apart.
HoldValueCandidate(lwp, light_wp) == light_wp

\* The value published below the threshold: self.last_wp.
HoldValue(lwp, light_wp) == lwp

\* What is published on a raw state change: nothing.
ResetOutput(lwp) == <<>>

\* The if / elif / else of image_cb followed by self.state_count += 1.
\* out is the sequence of values published by this frame.
Debounce(st, count, lst, lwp, light_wp, raw) ==
    IF st # raw
    THEN [branch |-> "reset", state |-> raw, state_count |-> ResetCount + 1,
          last_state |-> lst, last_wp |-> lwp, out |-> ResetOutput(lwp)]
    ELSE IF AtThreshold(count)
    THEN [branch |-> "commit", state |-> st, state_count |-> count + 1,
          last_state |-> st, last_wp |-> CommitValue(raw, light_wp),
          out |-> <<CommitValue(raw, light_wp)>>]
    ELSE [branch |-> "hold", state |-> st, state_count |-> count + 1,
          last_state |-> lst, last_wp |-> lwp,
          out |-> <<HoldValue(lwp, light_wp)>>]

\* ---------------------------------------------------------------------------
\* Observation history kept for the properties
\* ---------------------------------------------------------------------------

\* same: number of consecutive completed frames, ending with the latest,
\* that carried the raw state raw.  run: number of those that also carried
\* the waypoint light_wp, counted only for a run that began at startup or
\* on a raw state change (0 otherwise).
Observe(h, first, raw, light_wp) ==
    [raw |-> raw, light_wp |-> light_wp,
     same |-> IF h.same > 0 /\ h.raw = raw THEN h.same + 1 ELSE 1,
     run |-> IF first \/ (h.same > 0 /\ h.raw # raw) THEN 1
             ELSE IF h.same > 0 /\ h.run > 0 /\ h.light_wp = light_wp
                  THEN h.run + 1
                  ELSE 0]

\* ---------------------------------------------------------------------------
\* The image_cb call in progress
\* ---------------------------------------------------------------------------

\* No get_closest_waypoint call made yet.  A lookup records the point q
\* looked up, self.waypoints as tested at line 117 (checked), as read at
\* line 120 (bound) and the index returned.
NoLookup == [done |-> FALSE, q |-> None, checked |-> None, bound |-> None,
             result |-> NoCar]

\* No image_cb call in progress.  target says what the get_closest_waypoint
\* call in progress is for ("stop" or "car"), closest is closest_waypoints
\* so far, car is car_position, q the pose handed to get_closest_waypoint.
CallIdle == [pc |-> "idle", target |-> "none", closest |-> <<>>,
             car |-> NoCar, q |-> None, lookup |-> NoLookup]

\* ---------------------------------------------------------------------------
\* Initial state: TLDetector.__init__
\* ---------------------------------------------------------------------------
Init ==
    /\ config \in Configs
    /\ pose = None
    /\ waypoints = None
    /\ lights = <<>>
    /\ has_image = FALSE
    /\ camera_image = None
    /\ stop_lines = <<>>
    /\ state = UNKNOWN
    /\ last_state = UNKNOWN
    /\ last_wp = NoStop
    /\ state_count = 0
    /\ traffic_waypoint = <<>>
    /\ frame = [outcome |-> "none", closest_waypoints |-> <<>>,
                car_position |-> NoCar, light |-> NoLight, light_wp |-> NoStop,
                raw |-> UNKNOWN, classified |-> 0, answer |-> NoAnswer,
                out |-> <<>>,
                has_path |-> FALSE]
    /\ hist = [raw |-> UNKNOWN, light_wp |-> NoStop, same |-> 0, run |-> 0]
    /\ nframes = 0
    /\ call = CallIdle

\* ---------------------------------------------------------------------------
\* Callbacks
\* ---------------------------------------------------------------------------

pose_cb(msg) ==
    /\ pose' = msg
    /\ UNCHANGED <<config, waypoints, lights, has_image, camera_image,
                   stop_lines, state, state_count, last_state, last_wp,
                   traffic_waypoint, frame, hist, nframes, call>>

\* waypoints_cb that also starts the debounce over on a new path: the
\* variant the frame property of the callbacks must tell apart.
waypoints_cb_resetting(msg) ==
    /\ waypoints' = msg
    /\ state_count' = 0
    /\ last_wp' = NoStop
    /\ UNCHANGED <<config, pose, lights, has_image, camera_image,
                   stop_lines, state, last_state, traffic_waypoint,
                   frame, hist, nframes, call>>

waypoints_cb(msg) ==
    /\ waypoints' = msg
    /\ UNCHANGED <<config, pose, lights, has_image, camera_image,
                   stop_lines, state, state_count, last_state, last_wp,
                   traffic_waypoint, frame, hist, nframes, call>>

traffic_cb(msg) ==
    /\ lights' = msg
    /\ UNCHANGED <<config, pose, waypoints, has_image, camera_image,
                   stop_lines, state, state_count, last_state, last_wp,
                   traffic_waypoint, frame, hist, nframes, call>>

\* The record kept of one image_cb call: what process_traffic_lights
\* returned (r), what the debounce published (out) and whether a path
\* snapshot was there.
FrameRecord(outcome, r, out, has_path) ==
    [outcome |-> outcome, closest_waypoints |-> r.closest_waypoints,
     car_position |-> r.car_position, light |-> r.light,
     light_wp |-> r.light_wp, raw |-> r.state, classified |-> r.classified,
     answer |-> r.answer, out |-> out, has_path |-> has_path]

\* One camera frame msg; answer is the classifier's answer for it.
image_cb(msg, answer) ==
    /\ nframes < MaxFrames
    /\ nframes' = nframes + 1
    /\ has_image' = TRUE
    /\ camera_image' = <<msg>>
    /\ \E r \in {process_traffic_lights(config, waypoints, pose, stop_lines,
                                        TRUE, answer)} :
         /\ stop_lines' = r.stop_lines
         /\ IF r.raised
            THEN /\ UNCHANGED <<state, state_count, last_state, last_wp,
                                traffic_waypoint, hist>>
                 /\ frame' = FrameRecord("raise", r, <<>>, waypoints # None)
            ELSE \E d \in {Debounce(state, state_count, last_state, last_wp,
                                    r.light_wp, r.state)} :
                   /\ state' = d.state
                   /\ state_count' = d.state_count
                   /\ last_state' = d.last_state
                   /\ last_wp' = d.last_wp
                   /\ traffic_waypoint' =
                          IF d.out = <<>> THEN traffic_waypoint ELSE d.out
                   /\ hist' = Observe(hist, nframes = 0, r.state, r.light_wp)
                   /\ frame' = FrameRecord(d.branch, r, d.out,
                                         waypoints # None)
    /\ UNCHANGED <<config, pose, waypoints, lights, call>>

Next ==
    \/ \E msg \in CarPositions : pose_cb(msg)
    \/ \E msg \in Paths : waypoints_cb(msg)
    \/ \E msg \in LightLists : traffic_cb(msg)
    \/ \E msg \in Images, answer \in LightStates : image_cb(msg, answer)

Spec == Init /\ [][Next]_vars

\* ---------------------------------------------------------------------------
\* get_closest_waypoint alone, over every path and point of the grid
\* ---------------------------------------------------------------------------

\* The node with some path of the grid received and one stop line of the
\* grid configured.
InitNearest ==
    /\ config \in {<<xy>> : xy \in GridStopLines}
    /\ pose = None
    /\ waypoints \in GridPaths
    /\ lights = <<>>
    /\ has_image = FALSE
    /\ camera_image = None
    /\ stop_lines = <<>>
    /\ state = UNKNOWN
    /\ last_state = UNKNOWN
    /\ last_wp = NoStop
    /\ state_count = 0
    /\ traffic_waypoint = <<>>
    /\ frame = [outcome |-> "none", closest_waypoints |-> <<>>,
                car_position |-> NoCar, light |-> NoLight, light_wp |-> NoStop,
                raw |-> UNKNOWN, classified |-> 0, answer |-> NoAnswer,
                out |-> <<>>,
                has_path |-> TRUE]
    /\ hist = [raw |-> UNKNOWN, light_wp |-> NoStop, same |-> 0, run |-> 0]
    /\ nframes = 0
    /\ call = CallIdle

\* car_position = self.get_closest_waypoint(self.pose.pose) for the pose msg.
NearestCar(msg) ==
    /\ pose' = msg
    /\ frame' = [frame EXCEPT
                   !.car_position = get_closest_waypoint(waypoints, msg)]
    /\ UNCHANGED <<config, waypoints, lights, has_image, camera_image,
                   stop_lines, state, state_count, last_state, last_wp,
                   traffic_waypoint, hist, nframes, call>>

\* closest_waypoints: get_closest_stoplight_waypoint for the configured
\* stop lines.
NearestStopLines ==
    /\ stop_lines' = ResolveStopLines(config, waypoints)
    /\ UNCHANGED <<config, pose, waypoints, lights, has_image, camera_image,
                   state, state_count, last_state, last_wp, traffic_waypoint,
                   frame, hist, nframes, call>>

NextNearest ==
    \/ \E msg \in GridPoints : NearestCar(msg)
    \/ NearestStopLines

SpecNearest == InitNearest /\ [][NextNearest]_vars

\* ---------------------------------------------------------------------------
\* get_light_state alone, followed by the debounce step
\* ---------------------------------------------------------------------------

\* Candidate waypoints handed to the debounce together with the light state.
CandidateWaypoints == {ResolveStopLines(c, PathUnit)[1] : c \in {ConfigFar, ConfigNear}}

\* The node with self.has_image either value get_light_state tests for.
InitLightState ==
    /\ config = ConfigNone
    /\ pose = None
    /\ waypoints = None
    /\ lights = <<>>
    /\ has_image \in BOOLEAN
    /\ camera_image = None
    /\ stop_lines = <<>>
    /\ state = UNKNOWN
    /\ last_state = UNKNOWN
    /\ last_wp = NoStop
    /\ state_count = 0
    /\ traffic_waypoint = <<>>
    /\ frame = [outcome |-> "none", closest_waypoints |-> <<>>,
                car_position |-> NoCar, light |-> NoLight, light_wp |-> NoStop,
                raw |-> UNKNOWN, classified |-> 0, answer |-> NoAnswer,
                out |-> <<>>,
                has_path |-> FALSE]
    /\ hist = [raw |-> UNKNOWN, light_wp |-> NoStop, same |-> 0, run |-> 0]
    /\ nframes = 0
    /\ call = CallIdle

\* self.has_image = True; self.camera_image = msg
FrameArrives(msg) ==
    /\ has_image' = TRUE
    /\ camera_image' = <<msg>>
    /\ UNCHANGED <<config, pose, waypoints, lights, stop_lines, state,
                   state_count, last_state, last_wp, traffic_waypoint,
                   frame, hist, nframes, call>>

\* state = self.get_light_state(light) for a candidate with waypoint
\* light_wp, and the debounce step on what it returns.  answer is what the
\* classifier says when it is asked.
LightStateStep(light_wp, answer) ==
    /\ nframes < MaxFrames
    /\ nframes' = nframes + 1
    /\ \E d \in {Debounce(state, state_count, last_state, last_wp, light_wp,
                            get_light_state(has_image, answer))} :
         /\ state' = d.state
         /\ state_count' = d.state_count
         /\ last_state' = d.last_state
         /\ last_wp' = d.last_wp
         /\ traffic_waypoint' = IF d.out = <<>> THEN traffic_waypoint ELSE d.out
         /\ hist' = Observe(hist, nframes = 0, d.state, light_wp)
         /\ frame' = [outcome |-> d.branch, closest_waypoints |-> <<>>,
                      car_position |-> NoCar, light |-> LightId(1),
                      light_wp |-> light_wp, raw |-> d.state,
                      classified |-> IF has_image THEN 1 ELSE 0,
                      answer |-> IF has_image THEN answer ELSE NoAnswer,
                      out |-> d.out, has_path |-> FALSE]
    /\ UNCHANGED <<config, pose, waypoints, lights, has_image, camera_image,
                   stop_lines, call>>

NextLightState ==
    \/ \E msg \in Images : FrameArrives(msg)
    \/ \E light_wp \in CandidateWaypoints, answer \in LightStates :
          LightStateStep(light_wp, answer)

SpecLightState == InitLightState /\ [][NextLightState]_vars

\* ---------------------------------------------------------------------------
\* image_cb step by step, beside the callbacks of the other subscribers
\* ---------------------------------------------------------------------------
\* rospy runs the callbacks of each subscriber on a thread of its own, so
\* pose_cb, waypoints_cb and traffic_cb can run between any two steps of an
\* image_cb call.  A step is a stretch of image_cb with one read of
\* self.waypoints or self.pose; attribute reads and writes are atomic.

\* BoundWaypoints that reads self.waypoints again while the points are
\* collected: the variant the snapshot property must tell apart.
BoundWaypointsMixed(checked, current) ==
    [i \in 1..Len(current) |->
        IF 2 * i <= Len(current) THEN checked[i] ELSE current[i]]

\* The points the list comprehension at lines 119-120 iterates over:
\* self.waypoints.waypoints is evaluated once, when self.waypoints is
\* current; checked is the object tested at line 117.
BoundWaypoints(checked, current) == current

\* The point the get_closest_waypoint call in progress looks up.
LookupPoint ==
    IF call.target = "stop"
    THEN <<config[Len(call.closest) + 1][1], config[Len(call.closest) + 1][2], 0>>
    ELSE call.q

\* image_cb up to the first read of self.waypoints or self.pose.
image_cb_begin(msg) ==
    /\ call.pc = "idle"
    /\ nframes < MaxConcFrames
    /\ nframes' = nframes + 1
    /\ has_image' = TRUE
    /\ camera_image' = <<msg>>
    /\ call' = [CallIdle EXCEPT
                  !.pc = IF Len(config) > 0 THEN "check" ELSE "pose",
                  !.target = IF Len(config) > 0 THEN "stop" ELSE "none"]
    /\ UNCHANGED <<config, pose, waypoints, lights, stop_lines, state,
                   state_count, last_state, last_wp, traffic_waypoint,
                   frame, hist>>

\* get_closest_waypoint, line 117: "if self.waypoints is not None".  Without
\* a path the call raises and leaves image_cb.
get_closest_waypoint_check ==
    /\ call.pc = "check"
    /\ IF get_closest_waypoint_raises(waypoints)
       THEN /\ frame' = FrameRecord("raise", Raised(stop_lines), <<>>, FALSE)
            /\ call' = [call EXCEPT
                          !.pc = "idle",
                          !.lookup = [NoLookup EXCEPT !.q = LookupPoint]]
       ELSE /\ frame' = frame
            /\ call' = [call EXCEPT
                          !.pc = "bind",
                          !.lookup = [NoLookup EXCEPT !.q = LookupPoint,
                                                      !.checked = waypoints]]
    /\ UNCHANGED <<config, pose, waypoints, lights, has_image, camera_image,
                   stop_lines, state, state_count, last_state, last_wp,
                   traffic_waypoint, hist, nframes>>

\* get_closest_waypoint, lines 119-125: the points are collected from
\* self.waypoints.waypoints and the argmin is returned, to the list
\* comprehension of process_traffic_lights or to car_position.
get_closest_waypoint_bind ==
    /\ call.pc = "bind"
    /\ \E r \in {get_closest_waypoint(
                     BoundWaypoints(call.lookup.checked, waypoints),
                     call.lookup.q)} :
         call' = [call EXCEPT
                    !.lookup = [@ EXCEPT !.done = TRUE, !.bound = waypoints,
                                         !.result = r],
                    !.closest = IF call.target = "stop" THEN Append(@, r) ELSE @,
                    !.car = IF call.target = "car" THEN r ELSE @,
                    !.pc = IF call.target = "car" THEN "finish"
                           ELSE IF Len(call.closest) + 1 < Len(config)
                                THEN "check" ELSE "pose"]
    /\ UNCHANGED <<config, pose, waypoints, lights, has_image, camera_image,
                   stop_lines, state, state_count, last_state, last_wp,
                   traffic_waypoint, frame, hist, nframes>>

\* process_traffic_lights, lines 164-169: self.stop_lines.extend and
\* "if(self.pose)".
process_pose_test ==
    /\ call.pc = "pose"
    /\ stop_lines' = ExtendStopLines(stop_lines, call.closest)
    /\ call' = [call EXCEPT !.pc = IF pose # None THEN "arg" ELSE "finish"]
    /\ UNCHANGED <<config, pose, waypoints, lights, has_image, camera_image,
                   state, state_count, last_state, last_wp, traffic_waypoint,
                   frame, hist, nframes>>

\* process_traffic_lights, line 170: the argument self.pose.pose.
process_pose_arg ==
    /\ call.pc = "arg"
    /\ call' = [call EXCEPT !.q = pose, !.target = "car", !.pc = "check"]
    /\ UNCHANGED <<config, pose, waypoints, lights, has_image, camera_image,
                   stop_lines, state, state_count, last_state, last_wp,
                   traffic_waypoint, frame, hist, nframes>>

\* process_traffic_lights from the candidate scan on (lines 171-189) and
\* the debounce step of image_cb (lines 84-102).
image_cb_finish(answer) ==
    /\ call.pc = "finish"
    /\ \E r \in {SelectCandidate(stop_lines, call.closest, call.q # None,
                                  call.car, has_image, answer)} :
       \E d \in {Debounce(state, state_count, last_state, last_wp,
                           r.light_wp, r.state)} :
         /\ state' = d.state
         /\ state_count' = d.state_count
         /\ last_state' = d.last_state
         /\ last_wp' = d.last_wp
         /\ traffic_waypoint' = IF d.out = <<>> THEN traffic_waypoint ELSE d.out
         /\ hist' = Observe(hist, nframes = 1, r.state, r.light_wp)
         /\ frame' = FrameRecord(d.branch, r, d.out, waypoints # None)
    /\ call' = [call EXCEPT !.pc = "idle"]
    /\ UNCHANGED <<config, pose, waypoints, lights, has_image, camera_image,
                   stop_lines, nframes>>

NextConc ==
    \/ \E msg \in CarPositions : pose_cb(msg)
    \/ \E msg \in Paths : waypoints_cb(msg)
    \/ \E msg \in LightLists : traffic_cb(msg)
    \/ \E msg \in Images : image_cb_begin(msg)
    \/ get_closest_waypoint_check
    \/ get_closest_waypoint_bind
    \/ process_pose_test
    \/ process_pose_arg
    \/ \E answer \in LightStates : image_cb_finish(answer)

SpecConc == Init /\ [][NextConc]_vars

\* ---------------------------------------------------------------------------
\* Properties
\* ---------------------------------------------------------------------------

\* The latest image_cb call ran its debounce step (no exception left it).
Completed == frame.outcome \in {"reset", "commit", "hold"}

\* This step is an image_cb call whose debounce step ran.
FrameStep == nframes' = nframes + 1 /\ frame'.outcome \in {"reset", "commit", "hold"}

\* The decision a confirmed observation stands for: the candidate waypoint
\* for RED or YELLOW, "no stop" otherwise.
StopValue(raw, light_wp) == IF raw \in {RED, YELLOW} THEN light_wp ELSE NoStop

\* C1: from the 3rd frame of a run of identical (raw state, candidate
\* waypoint) frames on, the run starting at startup or on a raw state
\* change, the published decision is the committed value of the run.
C1_CommitOnThirdFrame ==
    hist.run >= 3 => traffic_waypoint = <<StopValue(hist.raw, hist.light_wp)>>

\* C2: a frame whose raw state differs from the current raw state resets the
\* run counter (it counts 1 after the frame) and leaves the last stable and
\* the published decision alone; and whenever either of them changes, at
\* least 3 consecutive frames with the same raw state have been observed.
C2_NoiseRejection ==
    [][ /\ (FrameStep /\ frame'.raw # state)
            => /\ state_count' = 1
               /\ last_wp' = last_wp
               /\ last_state' = last_state
               /\ traffic_waypoint' = traffic_waypoint
        /\ (last_wp' # last_wp
              \/ (traffic_waypoint # <<>> /\ traffic_waypoint' # traffic_waypoint))
            => hist'.same >= 3 ]_vars

\* A differing frame has arrived after a stop decision was committed and
\* published, and the decision is still there.
C2_Witness ==
    /\ frame.outcome = "reset"
    /\ hist.same = 1
    /\ last_wp # NoStop
    /\ last_state # state
    /\ traffic_waypoint = <<last_wp>>

\* C3: every frame handled while a path snapshot is available publishes
\* exactly one value.
C3_OnePublishPerFrame ==
    (frame.outcome # "none" /\ frame.has_path) => Len(frame.out) = 1

\* C4: a frame handled while no path snapshot was ever received completes
\* without an exception and publishes the sentinel -1.
C4_NoPathPublishesNoStop ==
    (frame.outcome # "none" /\ ~frame.has_path)
        => (frame.outcome # "raise" /\ frame.out = <<NoStop>>)

\* Every frame so far resolved the stop lines to the same indices, as it
\* does while the path snapshot stays the same.
SameResolution ==
    \A i \in 1..Len(stop_lines) :
        stop_lines[i] = stop_lines[((i - 1) % Len(config)) + 1]

\* C5: while the path snapshot stays the same, self.stop_lines never holds
\* more than one entry per configured stop line.
C5_RegistryIdempotent ==
    SameResolution => Len(stop_lines) <= Len(config)

\* C6: every candidate waypoint selected by a frame is the nearest index, in
\* the snapshot current at that frame, of some configured stop line.
C6_CandidateFromCurrentSnapshot ==
    (Completed /\ frame.light_wp # NoStop)
        => \E k \in 1..Len(frame.closest_waypoints) :
               frame.closest_waypoints[k] = frame.light_wp

\* C7: with c the car index of a frame, the selected waypoint s is an entry
\* of the scanned list with 0 < s - c < 150; when no candidate is returned
\* (waypoint -1, raw state UNKNOWN) no entry of the list is in that window.
\* With a single stop line resolved to s on every frame, s is selected iff
\* 0 < s - c < 150.
C7_HorizonBoundary ==
    (Completed /\ frame.car_position # NoCar)
        => /\ frame.light_wp # NoStop
                => /\ 0 < frame.light_wp - frame.car_position
                   /\ frame.light_wp - frame.car_position < 150
                   /\ \E i \in 1..Len(stop_lines) : stop_lines[i] = frame.light_wp
           /\ frame.light_wp = NoStop
                => /\ frame.raw = UNKNOWN
                   /\ \A i \in 1..Len(stop_lines) :
                         ~ (0 < stop_lines[i] - frame.car_position
                              /\ stop_lines[i] - frame.car_position < 150)
           /\ (Len(config) = 1 /\ SameResolution)
                => (frame.light_wp = stop_lines[1]
                      <=> /\ 0 < stop_lines[1] - frame.car_position
                          /\ stop_lines[1] - frame.car_position < 150)

\* The single stop line at index car + 149 has been selected.
C7_Witness ==
    /\ Completed
    /\ Len(config) = 1
    /\ frame.car_position = 1
    /\ frame.light_wp = 150
    /\ frame.light = 0

\* The configured stop lines whose index in the frame's snapshot is in the
\* window of the frame's car index.
InWindowNow ==
    {k \in 1..Len(frame.closest_waypoints) :
        /\ 0 < frame.closest_waypoints[k] - frame.car_position
        /\ frame.closest_waypoints[k] - frame.car_position < 150}

\* C8: when several configured stop lines are in the window, the candidate
\* is the first of them in configuration order: the stop-line id is the
\* position of that stop line in the configured list.
C8_FirstInConfigurationOrder ==
    (Completed /\ frame.car_position # NoCar /\ Cardinality(InWindowNow) >= 2)
        => \E k \in InWindowNow :
              /\ \A j \in InWindowNow : k <= j
              /\ frame.light = k - 1

\* C9: a frame on which the debounce commits publishes, and stores as
\* last_wp, the candidate waypoint for RED or YELLOW and -1 for GREEN or
\* UNKNOWN; the raw state becomes last_state.
C9_CommitValue ==
    frame.outcome = "commit"
        => /\ last_wp = StopValue(frame.raw, frame.light_wp)
           /\ frame.out = <<last_wp>>
           /\ traffic_waypoint = <<last_wp>>
           /\ last_state = frame.raw

\* A commit of a stop decision for a candidate waypoint.
C9_Witness ==
    /\ frame.outcome = "commit"
    /\ frame.raw \in {RED, YELLOW}
    /\ frame.light_wp # NoStop
    /\ last_wp = frame.light_wp

\* C10: a frame whose raw state equals the current raw state while the run
\* counter is below the threshold publishes exactly last_wp and leaves
\* last_wp and last_state unchanged.
C10_HoldBelowThreshold ==
    [][ (FrameStep /\ frame'.raw = state /\ state_count < 3)
            => /\ frame'.out = <<last_wp>>
               /\ traffic_waypoint' = <<last_wp>>
               /\ last_wp' = last_wp
               /\ last_state' = last_state ]_vars

\* A frame with a RED candidate was held: "no stop" was published again.
C10_Witness ==
    /\ frame.outcome = "hold"
    /\ frame.raw = RED
    /\ frame.light_wp # NoStop
    /\ frame.out = <<NoStop>>
    /\ last_wp = NoStop

\* What a frame that fails without a path leaves behind: the call raised,
\* self.stop_lines is still empty, nothing was published and the debounce
\* record is the one from before the frame.
NoPathFrameUntouched ==
    /\ frame'.outcome = "raise"
    /\ stop_lines = <<>>
    /\ stop_lines' = <<>>
    /\ frame'.out = <<>>
    /\ traffic_waypoint' = traffic_waypoint
    /\ state' = state
    /\ state_count' = state_count
    /\ last_state' = last_state
    /\ last_wp' = last_wp

\* C11 as stated: every frame handled while no path snapshot is available
\* fails in the stop-line resolution, leaves self.stop_lines empty,
\* publishes nothing and leaves the debounce record as it was.
C11_NoPathLeavesStateUntouched ==
    [][ (nframes' = nframes + 1 /\ waypoints = None)
            => NoPathFrameUntouched ]_vars

\* C11: a frame handled while no path snapshot is available, with a stop
\* line configured or a pose received, raises in get_closest_waypoint,
\* leaves self.stop_lines empty, publishes nothing and leaves state,
\* state_count, last_state and last_wp as they were.
C11_NoPathLookupLeavesStateUntouched ==
    [][ (nframes' = nframes + 1 /\ waypoints = None
           /\ (Len(config) > 0 \/ pose # None))
            => NoPathFrameUntouched ]_vars

\* A frame has failed without a path after earlier frames had advanced the
\* run counter.
C11_Witness ==
    /\ frame.outcome = "raise"
    /\ ~frame.has_path
    /\ waypoints = None
    /\ stop_lines = <<>>
    /\ state_count > 0
    /\ traffic_waypoint = <<NoStop>>

\* Index i (0-based) is a position of wps whose point is at the least
\* Euclidean distance from q, and no lower position is at that distance.
LowestMinimiser(wps, q, i) ==
    /\ i \in 0..(Len(wps) - 1)
    /\ \A j \in 1..Len(wps) :
          /\ Dist2(wps[i + 1], q) <= Dist2(wps[j], q)
          /\ j < i + 1 => Dist2(wps[i + 1], q) < Dist2(wps[j], q)

\* C12: for every non-empty path and every query point, the index returned
\* by get_closest_waypoint is that of a path point at the least Euclidean
\* distance, the lowest such index on ties; a stop line [x, y] is looked up
\* as the point (x, y, 0).
C12_NearestNeighbour ==
    /\ frame.car_position # NoCar
          => LowestMinimiser(waypoints, pose, frame.car_position)
    /\ \A k \in 1..Len(stop_lines) :
          LowestMinimiser(waypoints, <<config[k][1], config[k][2], 0>>,
                          stop_lines[k])

\* Two different path points are equally near the query point and the
\* first was returned; the stop line has been looked up too, and its nearest
\* point differs from the one nearest to the same [x, y] at z = 1.
C12_Witness ==
    /\ frame.car_position = 0
    /\ Len(waypoints) = 2
    /\ waypoints[1] # waypoints[2]
    /\ Dist2(waypoints[1], pose) = Dist2(waypoints[2], pose)
    /\ Len(stop_lines) = 1
    /\ stop_lines[1] = 1
    /\ pose = <<config[1][1], config[1][2], 1>>

C14_LookupAgainstOneSnapshot ==
    /\ call.lookup.done
          => \/ call.lookup.result =
                   get_closest_waypoint(call.lookup.bound, call.lookup.q)
             \/ call.lookup.result =
                   get_closest_waypoint(call.lookup.checked, call.lookup.q)
    /\ (call.lookup.q # None /\ ~call.lookup.done /\ call.pc = "idle")
          => call.lookup.checked = None

\* waypoints_cb replaced the path between line 117 and line 120 of a call,
\* and the call returned the index of the new snapshot, which differs from
\* the index in the old one.
C14_Witness ==
    /\ call.lookup.done
    /\ call.lookup.checked # call.lookup.bound
    /\ call.lookup.result =
          get_closest_waypoint(call.lookup.bound, call.lookup.q)
    /\ call.lookup.result #
          get_closest_waypoint(call.lookup.checked, call.lookup.q)

\* C15: at startup the decision record is (UNKNOWN, 0, UNKNOWN, -1) and
\* nothing has been published; every step that is not an image_cb call
\* (pose_cb, waypoints_cb, traffic_cb) leaves state, state_count,
\* last_state and last_wp unchanged and publishes nothing.
C15_OnlyImageCbMutatesRecord ==
    /\ state = UNKNOWN /\ state_count = 0 /\ last_state = UNKNOWN
    /\ last_wp = NoStop /\ traffic_waypoint = <<>>
    /\ [][ nframes' = nframes
             => UNCHANGED <<state, state_count, last_state, last_wp,
                            traffic_waypoint>> ]_vars

\* After a frame committed a stop decision, traffic_cb has run and pose_cb
\* or waypoints_cb has moved the car's index, and the decision is still the
\* committed one.
C15_Witness ==
    /\ frame.outcome = "commit"
    /\ frame.light_wp # NoStop
    /\ last_wp = frame.light_wp
    /\ traffic_waypoint = <<last_wp>>
    /\ state_count > STATE_COUNT_THRESHOLD
    /\ lights # <<>>
    /\ frame.car_position # get_closest_waypoint(waypoints, pose)

\* C16: a frame with a candidate stop line asks the classifier exactly once
\* and hands its answer unmodified to the debounce as the raw state; a frame
\* without a candidate (no pose, or no stop line in the window) does not ask
\* the classifier and hands (-1, UNKNOWN) to the debounce.
C16_ClassifierUse ==
    Completed
        => /\ frame.light # NoLight
                => /\ frame.classified = 1
                   /\ frame.answer \in LightStates
                   /\ frame.raw = frame.answer
                   /\ state = frame.answer
           /\ frame.light = NoLight
                => /\ frame.classified = 0
                   /\ frame.answer = NoAnswer
                   /\ frame.light_wp = NoStop
                   /\ frame.raw = UNKNOWN
                   /\ state = UNKNOWN
           /\ frame.car_position = NoCar => frame.light = NoLight

\* The classifier answered YELLOW for a candidate and YELLOW is the raw
\* state of the debounce.
C16_Witness ==
    /\ Completed
    /\ frame.light # NoLight
    /\ frame.classified = 1
    /\ frame.answer = YELLOW
    /\ state = YELLOW

\* The nearest path index of every configured stop line in every snapshot.
StopLineIndices ==
    {get_closest_stoplight_waypoint(w, config[k]) :
        w \in Paths, k \in 1..Len(config)}

\* C17: last_wp and the published value are -1 or an entry of
\* self.stop_lines, that is the nearest path index of a configured stop
\* line in the snapshot of the frame that resolved it, which is an index of
\* that snapshot.
C17_OutputIsStopLineIndex ==
    \A v \in {last_wp} \cup {traffic_waypoint[i] : i \in 1..Len(traffic_waypoint)} :
        \/ v = NoStop
        \/ /\ \E i \in 1..Len(stop_lines) : stop_lines[i] = v
           /\ v \in StopLineIndices
           /\ v \in 0..(PathLen - 1)

\* The published stop decision is an index resolved on an earlier frame: it
\* is not among the indices the latest frame resolved.
C17_Witness ==
    /\ Completed
    /\ last_wp # NoStop
    /\ traffic_waypoint = <<last_wp>>
    /\ Len(frame.closest_waypoints) > 0
    /\ \A k \in 1..Len(frame.closest_waypoints) :
          frame.closest_waypoints[k] # last_wp

\* C18: while every frame resolves the stop lines to the same indices (the
\* path snapshot and the configuration do not change), the stop-line id and
\* waypoint a frame selects from the accumulated self.stop_lines are those of
\* a scan of the indices resolved once: the first configured stop line in the
\* window of the car's index, or none; the id is smaller than the number of
\* configured stop lines.
C18_AccumulatedListAsResolvedOnce ==
    (Completed /\ SameResolution)
        => /\ (frame.car_position = NoCar \/ InWindowNow = {})
                => (frame.light = NoLight /\ frame.light_wp = NoStop)
           /\ (frame.car_position # NoCar /\ InWindowNow # {})
                => \E k \in InWindowNow :
                      /\ \A j \in InWindowNow : k <= j
                      /\ frame.light = k - 1
                      /\ frame.light_wp = frame.closest_waypoints[k]
                      /\ frame.light < Len(config)

\* The list holds the same two indices at least twice over and the second
\* configured stop line was selected.
C18_Witness ==
    /\ Completed
    /\ SameResolution
    /\ Len(config) = 2
    /\ Len(stop_lines) >= 2 * Len(config)
    /\ frame.light = 1
    /\ frame.light_wp = stop_lines[Len(stop_lines)]

\* C19: the stop-line indices and the car index of one
\* process_traffic_lights execution are all computed against the same path
\* snapshot, also when waypoints_cb or pose_cb run between its steps.
C19_OneSnapshotPerFrame ==
    (call.pc = "idle" /\ Completed /\ frame.car_position # NoCar)
        => \E w \in Paths :
              /\ frame.closest_waypoints = ResolveStopLines(config, w)
              /\ frame.car_position = get_closest_waypoint(w, call.q)

====
